---------------------------- MODULE Spec2Model ----------------------------
(***************************************************************************)
(* A model of optifolio's Portfolio result object (portfolio.py), of the   *)
(* constraint catalog (optimization/constraints.py) and of the request     *)
(* models that look constraints up in it (models/optimization.py).         *)
(*                                                                         *)
(*   SpecPortfolio    one Portfolio and the calls made on it               *)
(*   SpecConstraints  one optimization request: its constraints, the       *)
(*                    program assembled from them, the solver's answer     *)
(*   SpecCatalog      concurrent requests looking constraints up in        *)
(*                    constraint_mapping                                   *)
(*   SpecYahoo        YahooMarketData (market/yahoo_market_data.py): the   *)
(*                    bars table get_bars caches and the get_prices calls  *)
(*                    that read it                                         *)
(*                                                                         *)
(* Numbers.  A portfolio weight is a real number; here it is an integer    *)
(* count of ticks, TicksPerStep ticks making 10^-RoundDefault, so that     *)
(* rounding to RoundDefault decimals is rounding to a multiple of          *)
(* TicksPerStep ticks and One ticks are the weight 1.0.  A simple return   *)
(* is an integer multiple of 100%, so weight * return is again in ticks.   *)
(***************************************************************************)
EXTENDS Integers, Sequences, FiniteSets, TLC

VARIABLES
    weights,          \* Portfolio.weights: a Series, <<[key, val], ...>>
    objective_values, \* Portfolio.objective_values
    market_data,      \* Portfolio.market_data: None or a collaborator
    created_at,       \* Portfolio.created_at
    bound_ever,       \* history: a collaborator was passed to __init__ or set
    op,               \* the call the caller made and its arguments, or Idle
    ret,              \* what it returned (NoResult when it raised)
    raised,           \* the exception it raised, or None
    md_calls,         \* the collaborator methods it called, in order
    catalog,          \* the objects constraint_mapping holds, by ConstraintName
    n_assets,         \* the size of the universe of the optimization
    request,          \* the optimization request: how its constraints were given
    constraints,      \* the PortfolioConstraint objects of the request
    program,          \* the algebraic constraints of the assembled program
    phase,            \* "requested", "built", "solved"; "off" when unused
    status,           \* the solver's status
    solution,         \* the solved weight vector (on success)
    clients,          \* the concurrent requests looking constraints up
    bars_cache,       \* YahooMarketData.get_bars' cache entry: the DataFrame it holds
    bars_fetched,     \* history: that DataFrame as the provider returned it
    prices_call,      \* the last get_prices call: its bars_field and its outcome
    first_prices      \* history: by bars_field, what the first get_prices returned

pvars == <<weights, objective_values, market_data, created_at, bound_ever,
           op, ret, raised, md_calls>>
rvars == <<n_assets, request, constraints, program, phase, status, solution>>
yvars == <<bars_cache, bars_fetched, prices_call, first_prices>>
vars == <<pvars, catalog, rvars, clients, yvars>>

\* None among strings (market_data, created_at, raised)
None == "None"
\* An optional number is <<>> (None, NaN) or <<x>>
Nothing == <<>>
Some(x) == <<x>>
NaN == <<>>
\* ret is <<value>> when the call returned and <<>> when it raised
NoResult == <<>>

\* ------------------------------------------------------------------ bounds
RoundDefault == 5
TicksPerStep == 5
MaxTicks == 3
MaxTickers == 2
MaxAssets == 3
Denom == 2
MaxClients == 2
MaxBars == 1
MaxPrice == 2

One == TicksPerStep * (10 ^ RoundDefault)

WeightValues == ((0 - MaxTicks)..MaxTicks) \cup {One}
MarketDatas == {"ALPACA", "YAHOO"}
\* round_to_decimal arguments: None, 0, and two numbers of digits
RoundArgs == {Nothing, Some(0), Some(RoundDefault - 1), Some(RoundDefault)}
\* the per-asset return series a collaborator may hand back for two dates
ReturnSeries == {<<Some(0), Some(0)>>, <<Some(1), Some(0 - 1)>>, <<NaN, Some(1)>>}

\* ----------------------------------------------------------------- helpers
RECURSIVE SumSeq(_)
SumSeq(s) == IF s = <<>> THEN 0 ELSE Head(s) + SumSeq(Tail(s))

Abs(x) == IF x < 0 THEN 0 - x ELSE x

Keys(series) == [i \in 1..Len(series) |-> series[i].key]

\* numpy.round: to the nearest multiple of 10^-d, a tie to the even multiple.
\* q is 10^-d in ticks.
RoundHalfEven(x, q) ==
    LET a == Abs(x)
        k == a \div q
        r == a % q
        m == IF 2 * r > q THEN k + 1
             ELSE IF 2 * r < q THEN k
             ELSE IF k % 2 = 0 THEN k ELSE k + 1
    IN  IF x < 0 THEN 0 - (m * q) ELSE m * q

Quantum(d) == TicksPerStep * (10 ^ (RoundDefault - d))

\* pd.Series.round(d)
SeriesRound(series, d) ==
    [i \in 1..Len(series) |->
        [key |-> series[i].key, val |-> RoundHalfEven(series[i].val, Quantum(d))]]

TruthyIsNotNone(d) == d # Nothing

\* Python truthiness of `round_to_decimal`
Truthy(d) == d # Nothing /\ d[1] # 0

IsNonZero(e) == e.val # 0

\* ------------------------------------------------------- Portfolio methods
\* non_zero = self.weights[self.weights != 0]
\* return non_zero.round(round_to_decimal) if round_to_decimal else non_zero
get_non_zero_weights(w, round_to_decimal) ==
    LET non_zero == SelectSeq(w, IsNonZero)
    IN  IF Truthy(round_to_decimal)
        THEN SeriesRound(non_zero, round_to_decimal[1])
        ELSE non_zero

get_tickers_sorted(w, only_non_zero) ==
    LET ks == {e.key : e \in
                 {w[i] : i \in {j \in 1..Len(w) : only_non_zero => w[j].val # 0}}}
    IN  CHOOSE s \in [1..Cardinality(ks) -> ks] :
            /\ \A i, j \in 1..Cardinality(ks) : i < j => s[i] < s[j]

\* weights = self.get_non_zero_weights() if only_non_zero else self.weights
\* return tuple(weights.keys())
get_tickers(w, only_non_zero) ==
    Keys(IF only_non_zero THEN get_non_zero_weights(w, Some(RoundDefault)) ELSE w)

\* isinstance(self.market_data, MarketData)
IsMarketData(md) == md \in MarketDatas


\* AssetModel(**market_data.get_asset_from_ticker(ticker).dict(...), weight_in_ptf=weight)
\* for ticker, weight in weights.items()
assets_in_portfolio(w, only_non_zero) ==
    LET ws == IF only_non_zero THEN get_non_zero_weights(w, Some(RoundDefault)) ELSE w
    IN  [i \in 1..Len(ws) |-> [symbol |-> ws[i].key, weight_in_ptf |-> ws[i].val]]

\* the collaborator calls get_assets_in_portfolio makes: one per listed ticker
asset_calls(w, only_non_zero) ==
    LET a == assets_in_portfolio(w, only_non_zero)
    IN  [i \in 1..Len(a) |-> [method |-> "get_asset_from_ticker", arg |-> a[i].symbol]]

\* .sort_values(by="weight_in_ptf", ascending=False): pandas' default sort is
\* not stable, so rows of equal weight may come out in either order.
sorted_holdings(assets) ==
    LET n == Len(assets)
        perms == {p \in [1..n -> 1..n] : \A i, j \in 1..n : i # j => p[i] # p[j]}
    IN  {[i \in 1..n |-> assets[p[i]]] : p \in
            {q \in perms : \A i, j \in 1..n :
                i < j => assets[q[i]].weight_in_ptf >= assets[q[j]].weight_in_ptf}}

Dates == 1..2

\* (rets * self.get_non_zero_weights()).sum(axis=1, skipna=True): the product is
\* aligned on the ticker labels and a NaN cell is skipped.
weighted_return(w, rets, t) ==
    LET nzw == get_non_zero_weights(w, Some(RoundDefault))
    IN  SumSeq([i \in 1..Len(nzw) |->
                  IF rets[nzw[i].key][t] = NaN THEN 0
                  ELSE rets[nzw[i].key][t][1] * nzw[i].val])

\* 1 + (...).cumsum()
history(w, rets) ==
    [t \in Dates |-> One + SumSeq([s \in 1..t |-> weighted_return(w, rets, s)])]

\* ------------------------------------------------------------- the calls
Idle == [name |-> "idle", args |-> <<>>]

Returned(name, args, value, calls) ==
    /\ op = Idle
    /\ op' = [name |-> name, args |-> args]
    /\ ret' = <<value>>
    /\ raised' = None
    /\ md_calls' = calls
    /\ UNCHANGED <<catalog, rvars, clients, yvars>>

Raised(name, args, exc, calls) ==
    /\ op = Idle
    /\ op' = [name |-> name, args |-> args]
    /\ ret' = NoResult
    /\ raised' = exc
    /\ md_calls' = calls
    /\ UNCHANGED <<catalog, rvars, clients, yvars>>

SelfUnchanged == UNCHANGED <<weights, objective_values, market_data, created_at, bound_ever>>

GetNonZeroWeightsInPlace(round_to_decimal) ==
    /\ Returned("get_non_zero_weights", <<round_to_decimal>>,
                get_non_zero_weights(weights, round_to_decimal), <<>>)
    /\ weights' = IF Truthy(round_to_decimal)
                  THEN SeriesRound(weights, round_to_decimal[1]) ELSE weights
    /\ UNCHANGED <<objective_values, market_data, created_at, bound_ever>>

GetNonZeroWeights(round_to_decimal) ==
    /\ Returned("get_non_zero_weights", <<round_to_decimal>>,
                get_non_zero_weights(weights, round_to_decimal), <<>>)
    /\ SelfUnchanged

GetTickers(only_non_zero) ==
    /\ Returned("get_tickers", <<only_non_zero>>,
                get_tickers(weights, only_non_zero), <<>>)
    /\ SelfUnchanged

\* @typechecked: an argument that is no MarketData raises before the body runs
SetMarketData(md) ==
    IF IsMarketData(md)
    THEN /\ market_data' = md
         /\ bound_ever' = TRUE
         /\ Returned("set_market_data", <<md>>, None, <<>>)
         /\ UNCHANGED <<weights, objective_values, created_at>>
    ELSE /\ Raised("set_market_data", <<md>>, "TypeError", <<>>)
         /\ SelfUnchanged

GetAssetsInPortfolioUnchecked(only_non_zero) ==
    /\ Returned("get_assets_in_portfolio", <<only_non_zero>>,
                assets_in_portfolio(weights, only_non_zero),
                asset_calls(weights, only_non_zero))
    /\ SelfUnchanged

GetAssetsInPortfolio(only_non_zero) ==
    /\ IF ~IsMarketData(market_data)
       THEN Raised("get_assets_in_portfolio", <<only_non_zero>>, "AssertionError", <<>>)
       ELSE Returned("get_assets_in_portfolio", <<only_non_zero>>,
                     assets_in_portfolio(weights, only_non_zero),
                     asset_calls(weights, only_non_zero))
    /\ SelfUnchanged

\* pd.DataFrame([...]).set_index("symbol"): with no asset there is no "symbol"
\* column and set_index raises KeyError
GetHoldingsDf ==
    /\ IF ~IsMarketData(market_data)
       THEN Raised("get_holdings_df", <<>>, "AssertionError", <<>>)
       ELSE IF assets_in_portfolio(weights, TRUE) = <<>>
       THEN Raised("get_holdings_df", <<>>, "KeyError", <<>>)
       ELSE \E df \in sorted_holdings(assets_in_portfolio(weights, TRUE)) :
                Returned("get_holdings_df", <<>>, df, asset_calls(weights, TRUE))
    /\ SelfUnchanged

\* rets is what market_data.get_total_returns hands back for the tickers asked
GetHistory ==
    /\ IF ~IsMarketData(market_data)
       THEN Raised("get_history", <<>>, "AssertionError", <<>>)
       ELSE LET tickers == get_tickers(weights, TRUE)
            IN  \E rets \in [{tickers[i] : i \in 1..Len(tickers)} -> ReturnSeries] :
                    Returned("get_history", <<rets>>, history(weights, rets),
                             <<[method |-> "get_total_returns", arg |-> tickers]>>)
    /\ SelfUnchanged

\* the caller has looked at what the call returned or raised and is ready for
\* its next call
TakeResult ==
    /\ op # Idle
    /\ op' = Idle
    /\ ret' = NoResult
    /\ raised' = None
    /\ md_calls' = <<>>
    /\ SelfUnchanged
    /\ UNCHANGED <<catalog, rvars, clients, yvars>>

\* Portfolio(weights, objective_values, market_data=None, created_at=None): the
\* index is a universe of unique tickers, in ascending or descending order
InitPortfolio ==
    /\ \E n \in 1..MaxTickers :
         \E vals \in [1..n -> WeightValues] :
           \E descending \in BOOLEAN :
             weights = [i \in 1..n |->
                          [key |-> IF descending THEN n + 1 - i ELSE i, val |-> vals[i]]]
    /\ objective_values = <<[name |-> "objective", value |-> 0]>>
    /\ market_data \in MarketDatas \cup {None}
    /\ created_at = None
    /\ bound_ever = IsMarketData(market_data)
    /\ op = Idle
    /\ ret = NoResult
    /\ raised = None
    /\ md_calls = <<>>

NextPortfolio ==
    \/ \E d \in RoundArgs : GetNonZeroWeights(d)
    \/ \E b \in BOOLEAN : GetTickers(b)
    \/ \E md \in MarketDatas \cup {None} : SetMarketData(md)
    \/ \E b \in BOOLEAN : GetAssetsInPortfolio(b)
    \/ GetHoldingsDf
    \/ GetHistory
    \/ TakeResult

\* ==================================================== constraint catalog
\* In the optimization a weight is an integer number of steps of 1/Denom, from
\* one step below 0 to one step above 1.
WGrid == (0 - 1)..(Denom + 1)

ConstraintName == {"SUM_TO_ONE", "LONG_ONLY", "NUMER_OF_ASSETS"}

\* a PortfolioConstraint object: its class and its attributes
SumToOneConstraint ==
    [cls |-> "SumToOneConstraint", lower_bound |-> Nothing, upper_bound |-> Nothing]

NoShortSellConstraint ==
    [cls |-> "NoShortSellConstraint", lower_bound |-> Nothing, upper_bound |-> Nothing]

NumberOfAssetsConstraint(lower_bound, upper_bound) ==
    [cls |-> "NumberOfAssetsConstraint", lower_bound |-> lower_bound,
     upper_bound |-> upper_bound]

\* constraint_mapping as built when the module is imported
constraint_mapping_without_number_of_assets ==
    [name \in ConstraintName \ {"NUMER_OF_ASSETS"} |->
        CASE name = "SUM_TO_ONE" -> SumToOneConstraint
          [] name = "LONG_ONLY" -> NoShortSellConstraint]

constraint_mapping ==
    [name \in ConstraintName |->
        CASE name = "SUM_TO_ONE" -> SumToOneConstraint
          [] name = "LONG_ONLY" -> NoShortSellConstraint
          [] name = "NUMER_OF_ASSETS" -> NumberOfAssetsConstraint(Nothing, Nothing)]

\* a cvxpy constraint `lhs rel rhs`; lhs is an expression over weights_variable
\* and the boolean variable w_bool of the same shape
Lin(lhs, rel, rhs) == [lhs |-> lhs, rel |-> rel, rhs |-> rhs]

NoShortSell_get_constraints_list_short_allowed == <<Lin("w", ">=", 0 - 1)>>

\* [weights_variable >= 0]
NoShortSell_get_constraints_list == <<Lin("w", ">=", 0)>>

\* [cp.sum(weights_variable) == 1]
SumToOne_get_constraints_list == <<Lin("sum(w)", "==", 1)>>

NumberOfAssets_get_constraints_list_no_upper(self) ==
    <<Lin("w - w_bool", "<=", 0)>>
    \o (IF self.lower_bound # Nothing
        THEN <<Lin("sum(w_bool)", ">=", self.lower_bound[1])>> ELSE <<>>)

NumberOfAssets_get_constraints_list_equal_link(self) ==
    <<Lin("w - w_bool", "==", 0)>>
    \o (IF self.lower_bound # Nothing
        THEN <<Lin("sum(w_bool)", ">=", self.lower_bound[1])>> ELSE <<>>)
    \o (IF self.upper_bound # Nothing
        THEN <<Lin("sum(w_bool)", "<=", self.upper_bound[1])>> ELSE <<>>)

\* w_bool = cp.Variable(weights_variable.shape, boolean=True)
\* constraints = [weights_variable - w_bool <= 0], then one constraint on
\* cp.sum(w_bool) for each bound that is not None
NumberOfAssets_get_constraints_list(self) ==
    <<Lin("w - w_bool", "<=", 0)>>
    \o (IF self.lower_bound # Nothing
        THEN <<Lin("sum(w_bool)", ">=", self.lower_bound[1])>> ELSE <<>>)
    \o (IF self.upper_bound # Nothing
        THEN <<Lin("sum(w_bool)", "<=", self.upper_bound[1])>> ELSE <<>>)

get_constraints_list(self) ==
    CASE self.cls = "NoShortSellConstraint" -> NoShortSell_get_constraints_list
      [] self.cls = "SumToOneConstraint" -> SumToOne_get_constraints_list
      [] self.cls = "NumberOfAssetsConstraint" -> NumberOfAssets_get_constraints_list(self)

Rel(x, rel, y) ==
    CASE rel = ">=" -> x >= y
      [] rel = "<=" -> x <= y
      [] rel = "==" -> x = y

\* whether weights w and indicators b satisfy the cvxpy constraint c (a vector
\* constraint holds element-wise); 1.0 is Denom steps
Holds(c, w, b) ==
    LET n == Len(w)
    IN  CASE c.lhs = "w" -> \A i \in 1..n : Rel(w[i], c.rel, c.rhs * Denom)
          [] c.lhs = "sum(w)" -> Rel(SumSeq(w), c.rel, c.rhs * Denom)
          [] c.lhs = "w - w_bool" ->
                \A i \in 1..n : Rel(w[i] - b[i] * Denom, c.rel, c.rhs * Denom)
          [] c.lhs = "sum(w_bool)" -> Rel(SumSeq(b), c.rel, c.rhs)

\* w satisfies the program for some value of the boolean variable
Sat(prog, w) ==
    \E b \in [1..Len(w) -> {0, 1}] : \A k \in 1..Len(prog) : Holds(prog[k], w, b)

Feasible(prog, n) == {w \in [1..n -> WGrid] : Sat(prog, w)}

RECURSIVE Concat(_)
Concat(lists) == IF lists = <<>> THEN <<>> ELSE Head(lists) \o Concat(Tail(lists))

\* ConstraintModel.to_ptf_constraint: return constraint_mapping[self.name]
to_ptf_constraint(name) == catalog[name]

\* OptimizationRequest.constraints: the default, or any list of the names
DefaultConstraints == <<"SUM_TO_ONE", "LONG_ONLY">>

ConstraintLists ==
    {Concat(<<IF s THEN <<"SUM_TO_ONE">> ELSE <<>>,
              IF l THEN <<"LONG_ONLY">> ELSE <<>>,
              IF c THEN <<"NUMER_OF_ASSETS">> ELSE <<>> >>) : s, l, c \in BOOLEAN}

\* weights_tolerance: float | None, in steps
Tolerances == {Nothing, Some(0), Some(1)}

OptBounds(n) == {Nothing} \cup {Some(k) : k \in 0..n}

\* the constraint lists a caller of the library may build itself
ObjectLists(n) ==
    {Concat(<<IF s THEN <<SumToOneConstraint>> ELSE <<>>,
              IF l THEN <<NoShortSellConstraint>> ELSE <<>>,
              c>>) :
        s, l \in BOOLEAN,
        c \in {<<>>} \cup {<<NumberOfAssetsConstraint(lo, hi)>> : lo, hi \in OptBounds(n)}}

\* a request arrives, through the API models or with constraint objects built
\* by the caller
InitRequest ==
    /\ catalog = constraint_mapping
    /\ n_assets \in 1..MaxAssets
    /\ \/ /\ request \in [via_api : {TRUE}, models : ConstraintLists,
                         weights_tolerance : Tolerances]
          /\ constraints = [i \in 1..Len(request.models) |->
                              to_ptf_constraint(request.models[i])]
       \/ /\ request = [via_api |-> FALSE, models |-> <<>>, weights_tolerance |-> Nothing]
          /\ constraints \in ObjectLists(n_assets)
    /\ program = <<>>
    /\ phase = "requested"
    /\ status = None
    /\ solution = <<>>

\* Program Builder: the constraint lists of all specifications, concatenated
Build ==
    /\ phase = "requested"
    /\ program' = Concat([i \in 1..Len(constraints) |-> get_constraints_list(constraints[i])])
    /\ phase' = "built"
    /\ UNCHANGED <<catalog, n_assets, request, constraints, status, solution>>
    /\ UNCHANGED <<pvars, clients, yvars>>

\* Solve Orchestrator: the solver hands back a point that satisfies every
\* constraint, or reports that there is none
Solve ==
    /\ phase = "built"
    /\ phase' = "solved"
    /\ IF Feasible(program, n_assets) = {}
       THEN status' = "infeasible" /\ solution' = <<>>
       ELSE status' = "success" /\ solution' \in Feasible(program, n_assets)
    /\ UNCHANGED <<catalog, n_assets, request, constraints, program>>
    /\ UNCHANGED <<pvars, clients, yvars>>

NextRequest ==
    \/ Build
    \/ Solve

\* ---------------------------------------- concurrent lookups in the catalog
Clients == 1..MaxClients

\* the bounds a request may put on a NumberOfAssetsConstraint it holds
ClientBounds == OptBounds(1)

IdleClient ==
    [pc |-> "idle", model |-> None, name |-> None, touched |-> FALSE, out |-> <<>>]

\* ObjectiveName: the registered objective identifiers (the enum itself is
\* outside the sources at hand; two identifiers stand for its members)
ObjectiveName == {"EXPECTED_RETURNS", "COVARIANCE"}

\* what a caller may pass as name=...: every registered identifier of either
\* kind, and one identifier that is registered nowhere
Identifiers == ConstraintName \cup ObjectiveName \cup {"UNREGISTERED"}

InitCatalog ==
    /\ catalog = constraint_mapping
    /\ clients = [r \in Clients |-> IdleClient]

\* request r: ObjectiveModel(name=name, weight=...). The name field is typed
\* ObjectiveName, so validation at construction raises on any other identifier.
BuildObjectiveModel(r, name) ==
    /\ clients[r].pc = "idle"
    /\ clients' = [clients EXCEPT ![r] =
                       [pc |-> IF name \in ObjectiveName THEN "model" ELSE "rejected",
                        model |-> "ObjectiveModel", name |-> name,
                        touched |-> FALSE, out |-> <<>>]]
    /\ UNCHANGED <<catalog, pvars, rvars, yvars>>

\* request r: ConstraintModel(name=name). The name field is typed
\* ConstraintName, so validation at construction raises on any other identifier.
BuildConstraintModel(r, name) ==
    /\ clients[r].pc = "idle"
    /\ clients' = [clients EXCEPT ![r] =
                       [pc |-> IF name \in ConstraintName THEN "model" ELSE "rejected",
                        model |-> "ConstraintModel", name |-> name,
                        touched |-> FALSE, out |-> <<>>]]
    /\ UNCHANGED <<catalog, pvars, rvars, yvars>>

\* request r: constraint = model.to_ptf_constraint(), on the ConstraintModel
\* it built with this name. What it holds is the object in constraint_mapping
\* itself, not a copy; a name without an entry is a KeyError.
ToPtfConstraint(r, name) ==
    /\ clients[r].pc = "model"
    /\ clients[r].model = "ConstraintModel"
    /\ clients[r].name = name
    /\ clients' = [clients EXCEPT ![r].pc =
                       IF name \in DOMAIN catalog THEN "held" ELSE "KeyError"]
    /\ UNCHANGED <<catalog, pvars, rvars, yvars>>

\* request r: constraint.lower_bound = bound
SetLowerBound(r, bound) ==
    /\ clients[r].pc = "held"
    /\ to_ptf_constraint(clients[r].name).cls = "NumberOfAssetsConstraint"
    /\ catalog' = [catalog EXCEPT ![clients[r].name].lower_bound = bound]
    /\ clients' = [clients EXCEPT ![r].touched = TRUE]
    /\ UNCHANGED <<pvars, rvars, yvars>>

\* request r: constraint.upper_bound = bound
SetUpperBound(r, bound) ==
    /\ clients[r].pc = "held"
    /\ to_ptf_constraint(clients[r].name).cls = "NumberOfAssetsConstraint"
    /\ catalog' = [catalog EXCEPT ![clients[r].name].upper_bound = bound]
    /\ clients' = [clients EXCEPT ![r].touched = TRUE]
    /\ UNCHANGED <<pvars, rvars, yvars>>

\* request r: constraint.get_constraints_list(weights_variable)
GetConstraintsList(r) ==
    /\ clients[r].pc = "held"
    /\ clients' = [clients EXCEPT ![r].pc = "done",
                                  ![r].out = get_constraints_list(
                                                 to_ptf_constraint(clients[r].name))]
    /\ UNCHANGED <<catalog, pvars, rvars, yvars>>

\* request r is over
Finish(r) ==
    /\ \/ clients[r].pc \in {"done", "rejected", "KeyError"}
       \/ clients[r].pc = "model" /\ clients[r].model = "ObjectiveModel"
    /\ clients' = [clients EXCEPT ![r] = IdleClient]
    /\ UNCHANGED <<catalog, pvars, rvars, yvars>>

NextCatalog ==
    \/ \E r \in Clients, name \in Identifiers : BuildObjectiveModel(r, name)
    \/ \E r \in Clients, name \in Identifiers : BuildConstraintModel(r, name)
    \/ \E r \in Clients, name \in ConstraintName : ToPtfConstraint(r, name)
    \/ \E r \in Clients, bound \in ClientBounds : SetLowerBound(r, bound)
    \/ \E r \in Clients, bound \in ClientBounds : SetUpperBound(r, bound)
    \/ \E r \in Clients : GetConstraintsList(r)
    \/ \E r \in Clients : Finish(r)

\* ------------------------------------------------ the Yahoo data provider
\* The calls modelled are those made with one (tickers, start_date, end_date),
\* which is one key of get_bars' cache.

\* sorted(self.parse_tickers_for_yahoo(tickers))
YahooSymbols == <<"A", "B">>
BarDates == 1..MaxBars
\* the bars_field values: CLOSE, the default, and one other
BarsField == {"close", "open"}
BarsColumns == <<"open", "close">>

\* what the provider may answer: a price by symbol, date and column
BarsData == [(1..Len(YahooSymbols)) \X BarDates -> [BarsField -> 1..MaxPrice]]

Names(columns) == {columns[i] : i \in DOMAIN columns}

\* Ticker(...).history(...): a DataFrame indexed by (symbol, date), a row per
\* symbol and date. A row carries its index values under the level names.
Ticker_history(px) ==
    [index |-> <<"symbol", "date">>,
     columns |-> BarsColumns,
     rows |-> [i \in 1..(Len(YahooSymbols) * MaxBars) |->
                 LET s == ((i - 1) \div MaxBars) + 1
                     d == ((i - 1) % MaxBars) + 1
                 IN  [symbol |-> YahooSymbols[s], date |-> d,
                      open |-> px[<<s, d>>]["open"],
                      close |-> px[<<s, d>>]["close"]]]]

\* DataFrame.reset_index: the names of the columns the index levels become.
\* An unnamed default index becomes "index", or "level_0" if "index" is taken.
reset_index_names(df) ==
    IF df.index # <<>> THEN df.index
    ELSE IF "index" \notin Names(df.columns) THEN <<"index">>
    ELSE <<"level_0">>

\* DataFrame.insert refuses a column name that exists: ValueError
reset_index_raises(df) ==
    \E i \in DOMAIN reset_index_names(df) :
        reset_index_names(df)[i] \in Names(df.columns)

\* DataFrame.reset_index(inplace=True): the frame it leaves
reset_index(df) ==
    [index |-> <<>>,
     columns |-> reset_index_names(df) \o df.columns,
     rows |-> [i \in DOMAIN df.rows |->
                 IF df.index # <<>> THEN df.rows[i]
                 ELSE LET name == reset_index_names(df)[1]
                      IN  [c \in DOMAIN df.rows[i] \cup {name} |->
                              IF c = name THEN i - 1 ELSE df.rows[i][c]]]]

\* DataFrame.pivot(index=..., columns=..., values=...): a new table, a value
\* by index label and column label
pivot(df, index, columns, values) ==
    {[date |-> df.rows[i][index], symbol |-> df.rows[i][columns],
      value |-> df.rows[i][values]] : i \in DOMAIN df.rows}

InitYahoo ==
    /\ bars_cache = Nothing
    /\ bars_fetched = Nothing
    /\ prices_call = Nothing
    /\ first_prices = [f \in BarsField |-> Nothing]

\* get_bars(tickers, start_date, end_date) under lru_cache: a miss fetches the
\* table and stores it; a hit hands back the stored DataFrame object.
GetBars ==
    /\ \E px \in BarsData :
          IF bars_cache = Nothing
          THEN bars_cache' = <<Ticker_history(px)>> /\ bars_fetched' = bars_cache'
          ELSE UNCHANGED <<bars_cache, bars_fetched>>
    /\ UNCHANGED <<prices_call, first_prices>>
    /\ UNCHANGED <<catalog, pvars, rvars, clients>>

\* get_prices(tickers, start_date, end_date, bars_field): bars is the object
\* get_bars returned, so reset_index(inplace=True) changes the cached frame.
GetPrices(bars_field) ==
    /\ \E px \in BarsData :
          LET hit == bars_cache # Nothing
              bars == IF hit THEN bars_cache[1] ELSE Ticker_history(px)
              prices == pivot(reset_index(bars), "date", "symbol", bars_field)
          IN  /\ bars_fetched' = IF hit THEN bars_fetched ELSE <<bars>>
              /\ IF reset_index_raises(bars)
                 THEN /\ bars_cache' = <<bars>>
                      /\ prices_call' = <<[bars_field |-> bars_field,
                                           raised |-> "ValueError",
                                           prices |-> NoResult]>>
                      /\ UNCHANGED first_prices
                 ELSE /\ bars_cache' = <<reset_index(bars)>>
                      /\ prices_call' = <<[bars_field |-> bars_field,
                                           raised |-> None,
                                           prices |-> <<prices>>]>>
                      /\ first_prices' =
                             IF first_prices[bars_field] = Nothing
                             THEN [first_prices EXCEPT ![bars_field] = <<prices>>]
                             ELSE first_prices
    /\ UNCHANGED <<catalog, pvars, rvars, clients>>

NextYahoo ==
    \/ GetBars
    \/ \E bars_field \in BarsField : GetPrices(bars_field)

\* ------------------------------------------------------ the specifications
\* Each specification runs one part of the program; the variables of the other
\* parts are parked.
NoPortfolio ==
    /\ weights = <<>>
    /\ objective_values = <<>>
    /\ market_data = None
    /\ created_at = None
    /\ bound_ever = FALSE
    /\ op = Idle
    /\ ret = NoResult
    /\ raised = None
    /\ md_calls = <<>>

NoRequest ==
    /\ n_assets = 0
    /\ request = [via_api |-> FALSE, models |-> <<>>, weights_tolerance |-> Nothing]
    /\ constraints = <<>>
    /\ program = <<>>
    /\ phase = "off"
    /\ status = None
    /\ solution = <<>>

NoClients == clients = <<>>

NoYahoo ==
    /\ bars_cache = Nothing
    /\ bars_fetched = Nothing
    /\ prices_call = Nothing
    /\ first_prices = <<>>

PortfolioInit ==
    InitPortfolio /\ catalog = constraint_mapping /\ NoRequest /\ NoClients /\ NoYahoo
SpecPortfolio == PortfolioInit /\ [][NextPortfolio]_vars

ConstraintsInit == InitRequest /\ NoPortfolio /\ NoClients /\ NoYahoo
SpecConstraints == ConstraintsInit /\ [][NextRequest]_vars

CatalogInit == InitCatalog /\ NoPortfolio /\ NoRequest /\ NoYahoo
SpecCatalog == CatalogInit /\ [][NextCatalog]_vars

YahooInit ==
    InitYahoo /\ catalog = constraint_mapping /\ NoPortfolio /\ NoRequest /\ NoClients
SpecYahoo == YahooInit /\ [][NextYahoo]_vars

\* ------------------------------------------------- claims on the Portfolio

\* C1: get_non_zero_weights with rounding to 5 decimal digits returns no entry
\* whose rounded value is 0 (a weight that rounds to zero is dropped).
C1_NoRoundedZeroReturned ==
    (op.name = "get_non_zero_weights" /\ op.args = <<Some(RoundDefault)>>)
        => \A i \in 1..Len(ret[1]) : ret[1][i].val # 0

NeedsMarketData == {"get_assets_in_portfolio", "get_holdings_df", "get_history"}

\* C4: get_assets_in_portfolio, get_holdings_df and get_history raise the
\* assertion error exactly when no collaborator is bound (none passed to the
\* constructor, set_market_data never successful); they then return nothing
\* and call no collaborator method; get_non_zero_weights and get_tickers
\* succeed whether or not one is bound.
C4_PreconditionViolation ==
    /\ (market_data = None) <=> ~bound_ever
    /\ op.name \in NeedsMarketData =>
          /\ (raised = "AssertionError") <=> ~bound_ever
          /\ ~bound_ever => (ret = NoResult /\ md_calls = <<>>)
    /\ op.name \in {"get_non_zero_weights", "get_tickers"} =>
          (raised = None /\ ret # NoResult)

C4_Witness ==
    /\ ~bound_ever
    /\ op.name = "get_history"
    /\ raised = "AssertionError"

\* C8: no Portfolio call changes weights or objective_values; set_market_data
\* changes nothing but the market_data association and calls no method of the
\* collaborator.
C8_ReadOnlyView ==
    [][/\ weights' = weights
       /\ objective_values' = objective_values
       /\ op'.name = "set_market_data" =>
             (created_at' = created_at /\ md_calls' = <<>>)]_vars

C8_Witness ==
    /\ op.name = "set_market_data"
    /\ raised = None
    /\ market_data = op.args[1]

\* the weight of ticker k in the Portfolio's weight vector
WeightOf(k) == (CHOOSE i \in 1..Len(weights) : weights[i].key = k)

\* C9: get_history returns, for each date t, 1 plus the running sum up to t of
\* the sum over the non-zero-weighted tickers of return * weight, the weight
\* being the ticker's weight in the Portfolio's weight vector.
C9_HistoryUsesPortfolioWeights ==
    (op.name = "get_history" /\ raised = None) =>
        LET rets == op.args[1]
            nz == SelectSeq(weights, IsNonZero)
            day(t) == SumSeq([i \in 1..Len(nz) |->
                                IF rets[nz[i].key][t] = NaN THEN 0
                                ELSE rets[nz[i].key][t][1] * nz[i].val])
        IN  ret[1] = [t \in Dates |-> One + SumSeq([s \in 1..t |-> day(s)])]

\* C10: get_tickers returns exactly the tickers of the non-zero weights
\* (only_non_zero) or of all weights, each once, in the order of the weight
\* vector's index.
C10_TickersInIndexOrder ==
    (op.name = "get_tickers") =>
        LET out == ret[1]
            sel == {i \in 1..Len(weights) : op.args[1] => weights[i].val # 0}
        IN  /\ raised = None
            /\ {out[k] : k \in 1..Len(out)} = {weights[i].key : i \in sel}
            /\ \A k1, k2 \in 1..Len(out) : k1 < k2 => WeightOf(out[k1]) < WeightOf(out[k2])

C10_Witness ==
    /\ op.name = "get_tickers"
    /\ op.args[1]
    /\ Len(ret[1]) > 1
    /\ ret[1][1] > ret[1][2]
    /\ \E i \in 1..Len(weights) : Abs(weights[i].val) = 1

\* ------------------------------------------------ claims on the constraints
NonZeroCount(w) == Cardinality({i \in 1..Len(w) : w[i] # 0})

HasBoundedCardinality ==
    \E i \in 1..Len(constraints) :
        /\ constraints[i].cls = "NumberOfAssetsConstraint"
        /\ constraints[i].lower_bound # Nothing
        /\ constraints[i].upper_bound # Nothing

\* C2: with a NumberOfAssetsConstraint of bounds lo and hi among the
\* constraints, every weight vector that satisfies the program has a number of
\* non-zero weights within [lo, hi].
C2_CountWithinBounds ==
    (phase = "solved" /\ status = "success" /\ HasBoundedCardinality) =>
        \A i \in 1..Len(constraints) :
            constraints[i].cls = "NumberOfAssetsConstraint" =>
                /\ NonZeroCount(solution) >= constraints[i].lower_bound[1]
                /\ NonZeroCount(solution) <= constraints[i].upper_bound[1]

IsDefaultRequest == request.via_api /\ request.models = DefaultConstraints

ToleranceOf(req) ==
    IF req.weights_tolerance = Nothing THEN 0 ELSE req.weights_tolerance[1]

\* C3: a successful solve of a request with the default constraint set returns
\* weights whose sum is 1 within the tolerance and that are all >= -tolerance.
C3_DefaultSumsToOneLongOnly ==
    (phase = "solved" /\ status = "success" /\ IsDefaultRequest) =>
        /\ Abs(SumSeq(solution) - Denom) <= ToleranceOf(request)
        /\ \A i \in 1..Len(solution) : solution[i] >= 0 - ToleranceOf(request)

C3_Witness ==
    /\ phase = "solved"
    /\ status = "success"
    /\ IsDefaultRequest
    /\ NonZeroCount(solution) > 1

UpperBoundOneRequest ==
    /\ n_assets = 3
    /\ constraints = <<SumToOneConstraint, NoShortSellConstraint,
                       NumberOfAssetsConstraint(Nothing, Some(1))>>

\* C5: over 3 assets, every weight vector that satisfies sum-to-one, long-only
\* and the cardinality constraint with upper_bound = 1 has exactly one
\* non-zero weight, and it is 1.
C5_SingleAssetOfWeightOne ==
    (phase = "solved" /\ status = "success" /\ UpperBoundOneRequest) =>
        \E i \in 1..n_assets :
            /\ solution[i] = Denom
            /\ \A j \in 1..n_assets : j # i => solution[j] = 0

C5_Witness ==
    /\ phase = "solved"
    /\ status = "success"
    /\ UpperBoundOneRequest
    /\ solution[3] = Denom

NoBounds == NumberOfAssetsConstraint(Nothing, Nothing)

UsesBoolean(c) == c.lhs \in {"w - w_bool", "sum(w_bool)"}

\* C6: in a program built with a NumberOfAssetsConstraint without bounds, that
\* constraint contributes the link weight <= indicator and nothing on the
\* count; alone it admits every number of non-zero weights from 0 to the
\* universe size, and added to sum-to-one and long-only it leaves the set of
\* admitted weight vectors as it was.
C6_NoBoundsIsNoOp ==
    (phase = "built" /\ \E i \in 1..Len(constraints) : constraints[i] = NoBounds) =>
        /\ SelectSeq(program, UsesBoolean) = <<Lin("w - w_bool", "<=", 0)>>
        /\ constraints = <<NoBounds>> =>
              \A k \in 0..n_assets :
                  \E w \in Feasible(program, n_assets) : NonZeroCount(w) = k
        /\ constraints = <<SumToOneConstraint, NoShortSellConstraint, NoBounds>> =>
              \A w \in [1..n_assets -> WGrid] :
                  Sat(program, w) <=>
                      (SumSeq(w) = Denom /\ \A i \in 1..n_assets : w[i] >= 0)

C6_Witness ==
    /\ phase = "built"
    /\ request.via_api
    /\ constraints = <<SumToOneConstraint, NoShortSellConstraint, NoBounds>>
    /\ n_assets > 1

\* C7: whatever other requests did with the constraint objects their lookups
\* returned, a request that looks a name up and changes nothing gets the
\* algebraic constraints of the constraint as it was at process start, and the
\* objects in the mapping table are as they were at process start.
C7_LookupsAreStateless ==
    /\ catalog = constraint_mapping
    /\ \A r \in DOMAIN clients :
          (clients[r].pc = "done" /\ ~clients[r].touched) =>
              clients[r].out = get_constraints_list(constraint_mapping[clients[r].name])

\* ------------------------------------ claims on the models and the provider

\* C11: an identifier that is not registered for the kind of model being built
\* is refused when the ObjectiveModel / ConstraintModel is constructed, so
\* that request never holds a constraint nor produces algebraic constraints;
\* and a ConstraintModel that was accepted always finds its entry in the
\* mapping table: to_ptf_constraint never ends in a KeyError.
C11_UnknownIdentifierRefusedAtBuild ==
    \A r \in DOMAIN clients :
        LET c == clients[r]
            registered == IF c.model = "ConstraintModel" THEN ConstraintName
                          ELSE ObjectiveName
        IN  /\ (c.model # None /\ c.name \notin registered) =>
                   (c.pc = "rejected" /\ c.out = <<>> /\ ~c.touched)
            /\ c.pc # "KeyError"
            /\ c.pc \in {"held", "done"} =>
                   (c.model = "ConstraintModel" /\ c.name \in DOMAIN catalog)

\* one request was refused for an unregistered identifier while another went
\* all the way through the lookup of the last member of ConstraintName
C11_Witness ==
    \E r1, r2 \in DOMAIN clients :
        /\ clients[r1].pc = "rejected"
        /\ clients[r1].name = "UNREGISTERED"
        /\ clients[r2].pc = "done"
        /\ clients[r2].name = "NUMER_OF_ASSETS"

\* C12: get_prices leaves the bars table cached by get_bars as it was
\* fetched, and every get_prices call with the same tickers and dates succeeds
\* and returns the price table the first call with that bars_field returned.
C12_GetPricesLeavesCachedBarsUnchanged ==
    /\ bars_cache = bars_fetched
    /\ prices_call # Nothing =>
          /\ prices_call[1].raised = None
          /\ prices_call[1].prices = first_prices[prices_call[1].bars_field]

\* C13: get_non_zero_weights with round_to_decimal = 0 returns what it returns
\* with round_to_decimal = None: the entries of the weight vector whose weight
\* is not 0, in the vector's order, each with its weight as it is; with a
\* non-zero number of digits every returned weight is a multiple of
\* 10^-digits, the nearest one to the entry's weight.
C13_ZeroDigitsIsNoRounding ==
    (op.name = "get_non_zero_weights") =>
        LET d == op.args[1]
            out == ret[1]
            kept == {i \in 1..Len(weights) : weights[i].val # 0}
        IN  /\ Len(out) = Cardinality(kept)
            /\ \A j \in 1..Len(out) :
                   \E i \in kept :
                      /\ out[j].key = weights[i].key
                      /\ Cardinality({h \in kept : h < i}) = j - 1
                      /\ IF d = Nothing \/ d = Some(0)
                         THEN out[j].val = weights[i].val
                         ELSE /\ out[j].val % Quantum(d[1]) = 0
                              /\ 2 * Abs(out[j].val - weights[i].val) <= Quantum(d[1])

\* round_to_decimal = 0 was passed and a weight came back that rounding to 0
\* digits would have changed
C13_Witness ==
    /\ op.name = "get_non_zero_weights"
    /\ op.args = <<Some(0)>>
    /\ \E j \in 1..Len(ret[1]) : ret[1][j].val % One # 0

=============================================================================
